---- MODULE Spec2Model ----
(***************************************************************************)
(* Model of the WebSocket relay: the Room registry (src/types/Room.js) and *)
(* the connection handlers of src/app.js.                                  *)
(*                                                                         *)
(* Two environments drive the same state:                                  *)
(*   Spec     a caller that uses the Room methods directly, on handles the *)
(*            transport closes at will;                                    *)
(*   SpecApp  the server of app.js: the 'connection', 'message', 'error'   *)
(*            and 'close' events of the ws transport.                      *)
(* An exception that leaves a Room method is recorded in last.raised; one  *)
(* that leaves an event handler of app.js is uncaught (app.js installs no  *)
(* uncaughtException handler) and ends the process.                        *)
(*                                                                         *)
(* last is the record of the operation or handler that ran last: its       *)
(* arguments, its result and what it wrote and logged.  JavaScript runs    *)
(* one method or handler to completion at a time; the next one starts once *)
(* the record has been taken (Return).                                     *)
(*                                                                         *)
(* SpecIter is the server again, with the for-of loop of forwardMessage    *)
(* taken one entry at a time: last.pos is the entry the loop visits next   *)
(* (0 when no loop is running).                                            *)
(***************************************************************************)
EXTENDS Integers, Sequences, FiniteSets, TLC

(* ------------------------------ bounds -------------------------------- *)

\* Connections the transport offers to the server (SpecApp).
NumHandles == 3
\* Handles a direct caller of the Room methods holds (Spec).
NumCallerHandles == 2

Handles == 1..NumHandles
CallerHandles == 1..NumCallerHandles

(* ------------------------------ values -------------------------------- *)

\* ws readyState constants; Room.js compares with the literal 1.
OPEN == 1
CLOSING == 2
CLOSED == 3
ReadyStates == {OPEN, CLOSING, CLOSED}
\* The state a direct caller's handles are closed to.
CallerReadyStates == {CLOSED}

\* JavaScript undefined / null for an identity or a cookie header.
Undefined == "<undefined>"

\* Identities a caller passes to join / leave / sendToClient.
SuppliedIds == {"a", "b"}
\* The argument of crypto.randomBytes in join: the bytes of a generated identity.
RandomBytes == 8
\* Outcomes of crypto.randomBytes(8).toString('hex'), as opaque tokens.
GenId(i) == "g" \o ToString(i)
GenIds == {GenId(i) : i \in 1..NumHandles}
\* The token a direct caller's join without identity can draw.
CallerGenIds == {"g1"}

\* A test that takes only a missing identity as absent.
Missing(v) == v = Undefined

\* JavaScript truthiness of an identity value (null, undefined and "" are falsy).
Falsy(v) == v \in {Undefined, ""}

\* Parsed message payloads.
ChatHi == [type |-> "chat", text |-> "hi"]
Ping == [type |-> "ping"]
Payloads == {ChatHi, Ping}

\* Raw inbound texts: two well-formed (one with insignificant blanks), one not.
TextChatHi == "{\"type\":\"chat\",\"text\":\"hi\"}"
TextPing == "{\"type\":\"ping\"}"
TextPingSpaced == "{ \"type\" : \"ping\" }"
TextBad == "{not json"
Texts == {TextChatHi, TextPingSpaced, TextBad}

\* Timestamps new Date().toISOString() can return.
Times == {"2026-01-01T00:00:00.000Z", "2026-01-01T00:00:01.000Z"}

\* An acknowledgment built without its timestamp.
AckMessageNoTimestamp(t) == [type |-> "connected", message |-> "connected to the server"]

\* The acknowledgment object app.js builds on 'connection'.
AckMessage(t) == [type |-> "connected", message |-> "connected to the server", timestamp |-> t]
NoAck == [type |-> "none"]

\* JSON.stringify on the payloads above and on the acknowledgment.
JSONstringify(v) ==
    IF "timestamp" \in DOMAIN v
    THEN "{\"type\":\"" \o v.type \o "\",\"message\":\"" \o v.message
         \o "\",\"timestamp\":\"" \o v.timestamp \o "\"}"
    ELSE IF v = ChatHi THEN TextChatHi ELSE TextPing

\* A parser that accepts every text (the malformed one read as a ping).
JSONparseLenient(t) ==
    IF t = TextChatHi THEN [ok |-> TRUE, value |-> ChatHi]
    ELSE [ok |-> TRUE, value |-> Ping]

\* JSON.parse: ok = FALSE stands for the SyntaxError it throws.
JSONparse(t) ==
    IF t = TextChatHi THEN [ok |-> TRUE, value |-> ChatHi]
    ELSE IF t \in {TextPing, TextPingSpaced} THEN [ok |-> TRUE, value |-> Ping]
    ELSE [ok |-> FALSE, value |-> Ping]

\* Cookie request headers: absent, name=value, and a string without '='.
Cookies == {Undefined, "user=alice", "opaque"}

(* ------------------------------- state -------------------------------- *)

VARIABLES
    clients,     \* Room.clients: the Map, as the sequence of its entries in insertion order
    attached,    \* ws.clientId of every handle (Undefined until a join sets it)
    readyState,  \* ws.readyState of every handle
    connState,   \* lifecycle of every handle in app.js: Connecting, Open, Closed
    alive,       \* the server process is running
    last         \* what the last operation or handler did

vars == <<clients, attached, readyState, connState, alive, last>>

NoLast ==
    [op |-> "init", h |-> 0, argt |-> "none", id |-> Undefined, text |-> "",
     ret |-> FALSE, rid |-> Undefined, raised |-> FALSE, logs |-> <<>>,
     writes |-> <<>>, successCount |-> 0, failCount |-> 0, attempts |-> <<>>,
     threw |-> FALSE, forwarded |-> FALSE, ack |-> NoAck, prev |-> 0, pos |-> 0,
     bytes |-> 0]

(* --------------------------- Map primitives --------------------------- *)

Keys(cl) == {cl[i].id : i \in 1..Len(cl)}
Has(cl, id) == id \in Keys(cl)
IndexOf(cl, id) == CHOOSE i \in 1..Len(cl) : cl[i].id = id

\* An insertion that never looks for the key (a list push instead of Map.set).
MapSetAppend(cl, id, info) == Append(cl, info)

\* Map.prototype.set: an existing key keeps its position and gets the new value.
MapSet(cl, id, info) ==
    IF Has(cl, id) THEN [cl EXCEPT ![IndexOf(cl, id)] = info]
    ELSE Append(cl, info)

\* A removal that takes the oldest entry, whatever the key.
MapDeleteOldest(cl, id) == IF Has(cl, id) THEN Tail(cl) ELSE cl

\* Map.prototype.delete.
MapDelete(cl, id) ==
    IF Has(cl, id)
    THEN LET k == IndexOf(cl, id)
         IN  [i \in 1..(Len(cl) - 1) |-> IF i < k THEN cl[i] ELSE cl[i + 1]]
    ELSE cl

(* ------------------------------ Room.js ------------------------------- *)

\* crypto.randomBytes(8).toString('hex'): a token no record and no handle holds
\* (a collision of two live random identities is the accepted risk of the design).
\* No code looks inside an identity, so runs that differ only in which unused
\* token was drawn are the same run with the tokens renamed: the model names the
\* unused token of least index.  The set is empty when gen is used up.
FreshIds(gen, cl, att) ==
    LET free == {i \in 1..NumHandles : GenId(i) \in gen
                    /\ GenId(i) \notin Keys(cl) \cup {att[h] : h \in Handles}}
    IN  {GenId(i) : i \in {j \in free : \A k \in free : j <= k}}

getClient(cl, clientId) ==
    IF Has(cl, clientId) THEN cl[IndexOf(cl, clientId)] ELSE [id |-> Undefined, ws |-> 0]

getClientIds(cl) == [i \in 1..Len(cl) |-> cl[i].id]

\* A count of the connections held instead of the records.
getClientCountByHandle(cl) == Cardinality({cl[i].ws : i \in 1..Len(cl)})

getClientCount(cl) == Len(cl)

\* The handles of the records of the registry.
HandlesOf(cl) == {cl[i].ws : i \in 1..Len(cl)}

\* Random bytes drawn by a join that draws them for every call.
GeneratedBytesAlways(clientId) == RandomBytes

\* Random bytes join draws from crypto.randomBytes: none when clientId is truthy
\* (the right-hand side of || is not evaluated).
GeneratedBytes(clientId) == IF Falsy(clientId) THEN RandomBytes ELSE 0

\* Length of buf.toString('hex'): two hexadecimal digits per byte.
HexLength(bytes) == 2 * bytes

\* join(client, clientId): rnd is the outcome of crypto.randomBytes.
\* joinedAt is written here and read by no method; the model leaves it out.
join(cl, att, client, clientId, rnd) ==
    LET id == IF Falsy(clientId) THEN rnd ELSE clientId
        clientInfo == [id |-> id, ws |-> client]
    IN  [clients |-> MapSet(cl, id, clientInfo),
         attached |-> [att EXCEPT ![client] = id],
         rid |-> id,
         prev |-> getClient(cl, id).ws,
         bytes |-> GeneratedBytes(clientId),
         logs |-> <<"info">>]

\* leave without its typeof branch: the argument is always taken as the identity,
\* so a handle resolves to no identity.
leaveNoHandleBranch(cl, att, argt, id, h) ==
    IF argt = "null"
    THEN [clients |-> cl, ret |-> FALSE, raised |-> TRUE, logs |-> <<>>, prev |-> 0]
    ELSE IF Falsy(id)
         THEN [clients |-> cl, ret |-> FALSE, raised |-> FALSE, logs |-> <<"warn">>,
               prev |-> 0]
         ELSE [clients |-> MapDelete(cl, id), ret |-> Has(cl, id), raised |-> FALSE,
               logs |-> IF Has(cl, id) THEN <<"info">> ELSE <<"warn">>,
               prev |-> getClient(cl, id).ws]

\* leave that, given a handle, removes the record only when the record holds that
\* handle.
leaveOwnRecord(cl, att, argt, id, h) ==
    IF argt = "null"
    THEN [clients |-> cl, ret |-> FALSE, raised |-> TRUE, logs |-> <<>>, prev |-> 0]
    ELSE LET clientId == IF argt = "string" THEN id ELSE att[h]
         IN  IF Falsy(clientId) \/ (argt = "ws" /\ getClient(cl, clientId).ws # h)
             THEN [clients |-> cl, ret |-> FALSE, raised |-> FALSE, logs |-> <<"warn">>,
                   prev |-> 0]
             ELSE [clients |-> MapDelete(cl, clientId), ret |-> Has(cl, clientId),
                   raised |-> FALSE,
                   logs |-> IF Has(cl, clientId) THEN <<"info">> ELSE <<"warn">>,
                   prev |-> getClient(cl, clientId).ws]

\* leave that, given a handle, removes every record holding that handle.
leaveAllOfHandle(cl, att, argt, id, h) ==
    IF argt = "null"
    THEN [clients |-> cl, ret |-> FALSE, raised |-> TRUE, logs |-> <<>>, prev |-> 0]
    ELSE IF argt = "ws"
         THEN [clients |-> SelectSeq(cl, LAMBDA c : c.ws # h),
               ret |-> \E i \in 1..Len(cl) : cl[i].ws = h, raised |-> FALSE,
               logs |-> <<"info">>, prev |-> h]
         ELSE [clients |-> MapDelete(cl, id), ret |-> Has(cl, id), raised |-> FALSE,
               logs |-> IF Has(cl, id) THEN <<"info">> ELSE <<"warn">>,
               prev |-> getClient(cl, id).ws]

\* leave(clientOrId): argt is typeof-like: "string", "ws" (a handle) or "null".
\* Reading .clientId of null or undefined throws a TypeError.
\* prev is the handle of the record Map.delete removes (0 when it removes none).
leave(cl, att, argt, id, h) ==
    IF argt = "null"
    THEN [clients |-> cl, ret |-> FALSE, raised |-> TRUE, logs |-> <<>>, prev |-> 0]
    ELSE LET clientId == IF argt = "string" THEN id ELSE att[h]
         IN  IF Falsy(clientId)
             THEN [clients |-> cl, ret |-> FALSE, raised |-> FALSE, logs |-> <<"warn">>,
                   prev |-> 0]
             ELSE LET removed == Has(cl, clientId)
                  IN  [clients |-> MapDelete(cl, clientId), ret |-> removed,
                       raised |-> FALSE,
                       logs |-> IF removed THEN <<"info">> ELSE <<"warn">>,
                       prev |-> getClient(cl, clientId).ws]

\* Positions of the entries whose handle reports OPEN: the ones send is called on.
OpenPositions(cl, rs) == {i \in 1..Len(cl) : rs[cl[i].ws] = 1}

\* A loop body that skips a closed recipient without counting it.
forwardStepSkipClosed(cl, rs, text, throwsAt, i, acc) ==
    LET client == cl[i].ws
    IN  IF rs[client] = 1
        THEN IF i \in throwsAt
             THEN [acc EXCEPT !.failCount = @ + 1,
                              !.logs = Append(@, "error"),
                              !.attempts = Append(@, [id |-> cl[i].id, ws |-> client, res |-> "threw"])]
             ELSE [acc EXCEPT !.successCount = @ + 1,
                              !.writes = Append(@, [to |-> client, data |-> text]),
                              !.attempts = Append(@, [id |-> cl[i].id, ws |-> client, res |-> "sent"])]
        ELSE [acc EXCEPT !.attempts = Append(@, [id |-> cl[i].id, ws |-> client, res |-> "closed"])]

\* One pass of the body of the for-of loop of forwardMessage, on entry i:
\* throwsAt is the set of positions whose client.send throws.
forwardStep(cl, rs, text, throwsAt, i, acc) ==
    LET client == cl[i].ws
    IN  IF rs[client] = 1
        THEN IF i \in throwsAt
             THEN [acc EXCEPT !.failCount = @ + 1,
                              !.logs = Append(@, "error"),
                              !.attempts = Append(@, [id |-> cl[i].id, ws |-> client, res |-> "threw"])]
             ELSE [acc EXCEPT !.successCount = @ + 1,
                              !.writes = Append(@, [to |-> client, data |-> text]),
                              !.attempts = Append(@, [id |-> cl[i].id, ws |-> client, res |-> "sent"])]
        ELSE [acc EXCEPT !.failCount = @ + 1,
                         !.logs = Append(@, "warn"),
                         !.attempts = Append(@, [id |-> cl[i].id, ws |-> client, res |-> "closed"])]

\* A loop with the try/catch around the whole loop: the first throwing send ends it.
RECURSIVE forwardLoopAbort(_, _, _, _, _, _)
forwardLoopAbort(cl, rs, text, throwsAt, i, acc) ==
    IF i > Len(cl) THEN acc
    ELSE IF rs[cl[i].ws] = 1 /\ i \in throwsAt
         THEN [acc EXCEPT !.failCount = @ + 1, !.logs = Append(@, "error"),
                          !.attempts = Append(@, [id |-> cl[i].id, ws |-> cl[i].ws, res |-> "threw"])]
         ELSE forwardLoopAbort(cl, rs, text, throwsAt, i + 1,
                               forwardStep(cl, rs, text, throwsAt, i, acc))

\* The for-of loop of forwardMessage over the entries of the Map, from entry i on.
RECURSIVE forwardLoop(_, _, _, _, _, _)
forwardLoop(cl, rs, text, throwsAt, i, acc) ==
    IF i > Len(cl) THEN acc
    ELSE forwardLoop(cl, rs, text, throwsAt, i + 1,
                     forwardStep(cl, rs, text, throwsAt, i, acc))

\* forwardMessage(message)
forwardMessage(cl, rs, message, throwsAt) ==
    LET start == [successCount |-> 0, failCount |-> 0, logs |-> <<"info">>,
                  writes |-> <<>>, attempts |-> <<>>, raised |-> FALSE]
        done == forwardLoop(cl, rs, JSONstringify(message), throwsAt, 1, start)
    IN  [done EXCEPT !.logs = Append(@, "info")]

\* sendToClient without the readyState test.
sendToClientNoStateCheck(cl, rs, clientId, message, throws) ==
    IF ~Has(cl, clientId)
    THEN [ret |-> FALSE, raised |-> FALSE, threw |-> FALSE, logs |-> <<"warn">>, writes |-> <<>>]
    ELSE IF throws
         THEN [ret |-> FALSE, raised |-> FALSE, threw |-> TRUE,
               logs |-> <<"error">>, writes |-> <<>>]
         ELSE [ret |-> TRUE, raised |-> FALSE, threw |-> FALSE, logs |-> <<"info">>,
               writes |-> <<[to |-> getClient(cl, clientId).ws,
                             data |-> JSONstringify(message)]>>]

\* sendToClient(clientId, message): throws says whether client.send throws.
sendToClient(cl, rs, clientId, message, throws) ==
    IF ~Has(cl, clientId)
    THEN [ret |-> FALSE, raised |-> FALSE, threw |-> FALSE, logs |-> <<"warn">>, writes |-> <<>>]
    ELSE LET client == getClient(cl, clientId).ws
         IN  IF rs[client] = 1
             THEN IF throws
                  THEN [ret |-> FALSE, raised |-> FALSE, threw |-> TRUE,
                        logs |-> <<"error">>, writes |-> <<>>]
                  ELSE [ret |-> TRUE, raised |-> FALSE, threw |-> FALSE, logs |-> <<"info">>,
                        writes |-> <<[to |-> client, data |-> JSONstringify(message)]>>]
             ELSE [ret |-> FALSE, raised |-> FALSE, threw |-> FALSE,
                   logs |-> <<"warn">>, writes |-> <<>>]

\* A sequence of join calls, each with a supplied identity, one after the other.
RECURSIVE JoinAll(_, _, _)
JoinAll(cl, att, calls) ==
    IF calls = <<>> THEN [clients |-> cl, attached |-> att]
    ELSE LET r == join(cl, att, Head(calls).client, Head(calls).clientId, Undefined)
         IN  JoinAll(r.clients, r.attached, Tail(calls))

\* A reset that spares the oldest record.
clearButOldest(cl) ==
    [clients |-> IF cl = <<>> THEN cl ELSE <<cl[1]>>, logs |-> <<"info">>]

\* clear()
clear(cl) == [clients |-> <<>>, logs |-> <<"info">>]

(* ------------------------------- Init --------------------------------- *)

Init ==
    /\ clients = <<>>
    /\ attached = [h \in Handles |-> Undefined]
    /\ readyState = [h \in Handles |-> OPEN]
    /\ connState = [h \in Handles |-> "Connecting"]
    /\ alive = TRUE
    /\ last = NoLast

(* ------------------------------ transport ----------------------------- *)

\* The transport moves a handle towards CLOSED; a handle never reopens.
Transport(h, s) ==
    /\ alive
    /\ s > readyState[h]
    /\ readyState' = [readyState EXCEPT ![h] = s]
    /\ UNCHANGED <<clients, attached, connState, alive, last>>

(* --------------------- Room methods, called directly ------------------ *)

Untouched == UNCHANGED <<connState, alive>>

\* A scheduler that starts a handler while another one is running.
Preemptive == TRUE

\* The caller holds no result it has not looked at yet: the call stack is empty,
\* and the event loop may start the next handler.
Idle == last = NoLast

\* room.join(client, clientId); clientId may be omitted (Undefined) or "".
Join(h, clientId) ==
    /\ Idle
    /\ \E rnd \in IF Falsy(clientId) THEN FreshIds(CallerGenIds, clients, attached)
                  ELSE {Undefined} :
        LET r == join(clients, attached, h, clientId, rnd)
        IN  /\ clients' = r.clients
            /\ attached' = r.attached
            /\ last' = [NoLast EXCEPT !.op = "join", !.h = h, !.id = clientId,
                                      !.rid = r.rid, !.prev = r.prev, !.logs = r.logs,
                                      !.bytes = r.bytes]
    /\ UNCHANGED readyState
    /\ Untouched

\* room.leave(clientOrId) with a string, a handle, or null.
Leave(argt, id, h) ==
    /\ Idle
    /\ LET r == leave(clients, attached, argt, id, h)
       IN  /\ clients' = r.clients
           /\ last' = [NoLast EXCEPT !.op = "leave", !.argt = argt, !.id = id, !.h = h,
                                     !.ret = r.ret, !.raised = r.raised, !.logs = r.logs,
                                     !.prev = r.prev]
    /\ UNCHANGED <<attached, readyState>>
    /\ Untouched

\* room.forwardMessage(message)
ForwardMessage(message, throwsAt) ==
    /\ Idle
    /\ LET r == forwardMessage(clients, readyState, message, throwsAt)
       IN  last' = [NoLast EXCEPT !.op = "forwardMessage", !.raised = r.raised,
                                  !.logs = r.logs, !.writes = r.writes,
                                  !.successCount = r.successCount,
                                  !.failCount = r.failCount, !.attempts = r.attempts,
                                  !.forwarded = TRUE]
    /\ UNCHANGED <<clients, attached, readyState>>
    /\ Untouched

\* room.sendToClient(clientId, message)
SendToClient(clientId, message, throws) ==
    /\ Idle
    /\ LET r == sendToClient(clients, readyState, clientId, message, throws)
       IN  last' = [NoLast EXCEPT !.op = "sendToClient", !.id = clientId,
                                  !.ret = r.ret, !.raised = r.raised, !.threw = r.threw,
                                  !.logs = r.logs, !.writes = r.writes]
    /\ UNCHANGED <<clients, attached, readyState>>
    /\ Untouched

\* room.clear()
Clear ==
    /\ Idle
    /\ LET r == clear(clients)
       IN  /\ clients' = r.clients
           /\ last' = [NoLast EXCEPT !.op = "clear", !.logs = r.logs]
    /\ UNCHANGED <<attached, readyState>>
    /\ Untouched

\* The caller has looked at the result of its call and goes on.
Return ==
    /\ alive
    /\ ~Idle
    /\ last' = NoLast
    /\ UNCHANGED <<clients, attached, readyState>>
    /\ Untouched

Next ==
    \/ \E h \in CallerHandles, clientId \in SuppliedIds \cup {Undefined, ""} : Join(h, clientId)
    \/ \E id \in SuppliedIds \cup CallerGenIds \cup {""} : Leave("string", id, 0)
    \/ \E h \in CallerHandles : Leave("ws", Undefined, h)
    \/ Leave("null", Undefined, 0)
    \/ \E m \in Payloads, throwsAt \in SUBSET OpenPositions(clients, readyState) : ForwardMessage(m, throwsAt)
    \/ \E id \in SuppliedIds \cup CallerGenIds, m \in Payloads, throws \in BOOLEAN :
           SendToClient(id, m, throws)
    \/ Clear
    \/ Return
    \/ \E h \in CallerHandles, s \in CallerReadyStates : Idle /\ Transport(h, s)

Spec == Init /\ [][Next]_vars

(* ------------------------------- app.js ------------------------------- *)

\* cookies.split('='): a TypeError when the request has no Cookie header.
CookieSplitThrows(cookie) == cookie = Undefined

\* An exception left an event handler: the process ends, and with it the
\* registry and every connection it held.
Crash ==
    /\ alive' = FALSE
    /\ clients' = <<>>
    /\ readyState' = [h \in Handles |-> CLOSED]
    /\ connState' = [h \in Handles |-> "Closed"]
    /\ UNCHANGED attached

\* A 'connection' handler that writes the acknowledgment before it calls join.
AcceptAckBeforeJoin(h, cookie, t, ackThrows) ==
    /\ alive
    /\ Idle
    /\ connState[h] = "Connecting"
    /\ readyState[h] = OPEN
    /\ IF CookieSplitThrows(cookie) \/ ackThrows
       THEN /\ last' = [NoLast EXCEPT !.op = "accept", !.h = h, !.id = cookie,
                                      !.raised = TRUE, !.threw = ackThrows,
                                      !.logs = <<"info">>]
            /\ Crash
       ELSE \E rnd \in FreshIds(GenIds, clients, attached) :
            LET r == join(clients, attached, h, Undefined, rnd)
                ack == AckMessage(t)
            IN  /\ last' = [NoLast EXCEPT !.op = "accept", !.h = h, !.id = cookie,
                                          !.rid = r.rid, !.prev = r.prev,
                                          !.bytes = r.bytes, !.ack = ack,
                                          !.logs = <<"info">> \o r.logs,
                                          !.writes = <<[to |-> h, data |-> JSONstringify(ack)]>>]
                /\ clients' = r.clients
                /\ attached' = r.attached
                /\ connState' = [connState EXCEPT ![h] = "Open"]
                /\ UNCHANGED <<readyState, alive>>

\* wss.on('connection'): t is new Date(), ackThrows says whether ws.send throws.
Accept(h, cookie, t, ackThrows) ==
    /\ alive
    /\ Idle
    /\ connState[h] = "Connecting"
    /\ readyState[h] = OPEN
    /\ IF CookieSplitThrows(cookie)
       THEN /\ last' = [NoLast EXCEPT !.op = "accept", !.h = h, !.id = cookie,
                                      !.raised = TRUE, !.logs = <<"info">>]
            /\ Crash
       ELSE \E rnd \in FreshIds(GenIds, clients, attached) :
            LET r == join(clients, attached, h, Undefined, rnd)
                ack == AckMessage(t)
                done == [NoLast EXCEPT !.op = "accept", !.h = h, !.id = cookie,
                                       !.rid = r.rid, !.prev = r.prev,
                                       !.bytes = r.bytes,
                                       !.logs = <<"info">> \o r.logs]
            IN  IF ackThrows
                THEN /\ last' = [done EXCEPT !.raised = TRUE, !.threw = TRUE]
                     /\ Crash
                ELSE /\ last' = [done EXCEPT !.ack = ack,
                                     !.writes = <<[to |-> h, data |-> JSONstringify(ack)]>>]
                     /\ clients' = r.clients
                     /\ attached' = r.attached
                     /\ connState' = [connState EXCEPT ![h] = "Open"]
                     /\ UNCHANGED <<readyState, alive>>

\* ws.on('message')
MessageEvent(h, text, throwsAt) ==
    /\ alive
    /\ Idle
    /\ connState[h] = "Open"
    /\ readyState[h] # CLOSED
    /\ LET p == JSONparse(text)
           r == forwardMessage(clients, readyState, p.value, throwsAt)
           got == [NoLast EXCEPT !.op = "message", !.h = h, !.text = text]
       IN  IF p.ok
           THEN last' = [got EXCEPT !.raised = r.raised, !.logs = <<"info">> \o r.logs,
                                    !.writes = r.writes, !.successCount = r.successCount,
                                    !.failCount = r.failCount, !.attempts = r.attempts,
                                    !.forwarded = TRUE]
           ELSE last' = [got EXCEPT !.logs = <<"info", "error">>]
    /\ UNCHANGED <<clients, attached, readyState, connState, alive>>

\* ws.on('close'): emitted once the handle is CLOSED.
CloseEvent(h) ==
    /\ alive
    /\ Idle
    /\ connState[h] = "Open"
    /\ readyState[h] = CLOSED
    /\ LET r == leave(clients, attached, "ws", Undefined, h)
       IN  /\ clients' = r.clients
           /\ last' = [NoLast EXCEPT !.op = "close", !.h = h, !.argt = "ws",
                                     !.ret = r.ret, !.raised = r.raised,
                                     !.prev = r.prev,
                                     !.logs = <<"info">> \o r.logs]
    /\ connState' = [connState EXCEPT ![h] = "Closed"]
    /\ UNCHANGED <<attached, readyState, alive>>

\* An 'error' handler that also takes the connection out of the registry.
ErrorEventLeaves(h, s) ==
    /\ alive
    /\ Idle
    /\ connState[h] = "Open"
    /\ readyState[h] # CLOSED
    /\ s >= readyState[h]
    /\ readyState' = [readyState EXCEPT ![h] = s]
    /\ clients' = leave(clients, attached, "ws", Undefined, h).clients
    /\ last' = [NoLast EXCEPT !.op = "error", !.h = h, !.logs = <<"error">>]
    /\ UNCHANGED <<attached, connState, alive>>

\* ws.on('error'): the handler only logs.  s is the ready state the transport
\* leaves the handle in when it reports the error: as it was, or CLOSING when the
\* transport is giving the connection up.
ErrorEvent(h, s) ==
    /\ alive
    /\ Idle
    /\ connState[h] = "Open"
    /\ readyState[h] # CLOSED
    /\ s >= readyState[h]
    /\ readyState' = [readyState EXCEPT ![h] = s]
    /\ last' = [NoLast EXCEPT !.op = "error", !.h = h, !.logs = <<"error">>]
    /\ UNCHANGED <<clients, attached, connState, alive>>

NextApp ==
    \/ \E h \in Handles, cookie \in Cookies, t \in Times, ackThrows \in BOOLEAN :
           Accept(h, cookie, t, ackThrows)
    \/ \E h \in Handles, text \in Texts, throwsAt \in SUBSET OpenPositions(clients, readyState) :
           MessageEvent(h, text, throwsAt)
    \/ \E h \in Handles : CloseEvent(h)
    \/ \E h \in Handles, s \in {OPEN, CLOSING} : ErrorEvent(h, s)
    \/ \E h \in Handles, s \in ReadyStates : Idle /\ connState[h] = "Open" /\ Transport(h, s)
    \/ Return

SpecApp == Init /\ [][NextApp]_vars

(* ------------------- app.js, the broadcast loop by entry -------------- *)

\* The for-of loop of forwardMessage is running.
Iterating == last.pos > 0

\* The positions of the attempts of a broadcast whose send threw.
ThrownAt(att) == {i \in 1..Len(att) : att[i].res = "threw"}

\* ws.on('message') up to the first entry of the loop of forwardMessage: the text is
\* parsed; a malformed one is logged and the handler is done.
MessageStart(h, text) ==
    /\ alive
    /\ Idle
    /\ connState[h] = "Open"
    /\ readyState[h] # CLOSED
    /\ LET p == JSONparse(text)
           got == [NoLast EXCEPT !.op = "message", !.h = h, !.text = text]
       IN  IF p.ok
           THEN last' = [got EXCEPT !.logs = <<"info", "info">>, !.forwarded = TRUE,
                                    !.pos = 1]
           ELSE last' = [got EXCEPT !.logs = <<"info", "error">>]
    /\ UNCHANGED <<clients, attached, readyState, connState, alive>>

\* One pass of the loop body, on the entry the loop has come to.
MessageStep(throws) ==
    /\ alive
    /\ Iterating
    /\ last.pos <= Len(clients)
    /\ throws => readyState[clients[last.pos].ws] = 1
    /\ LET text == JSONstringify(JSONparse(last.text).value)
           throwsAt == IF throws THEN {last.pos} ELSE {}
           acc == forwardStep(clients, readyState, text, throwsAt, last.pos, last)
       IN  last' = [acc EXCEPT !.pos = @ + 1]
    /\ UNCHANGED <<clients, attached, readyState, connState, alive>>

\* The loop is past the last entry: forwardMessage logs its counts and returns.
MessageEnd ==
    /\ alive
    /\ Iterating
    /\ last.pos > Len(clients)
    /\ last' = [last EXCEPT !.logs = Append(@, "info"), !.pos = 0]
    /\ UNCHANGED <<clients, attached, readyState, connState, alive>>

\* A handler that has run to its end returns to the event loop.
IterReturn == ~Iterating /\ Return

NextIter ==
    \/ \E h \in Handles, cookie \in Cookies, t \in Times, ackThrows \in BOOLEAN :
           Accept(h, cookie, t, ackThrows)
    \/ \E h \in Handles, text \in Texts : MessageStart(h, text)
    \/ \E throws \in BOOLEAN : MessageStep(throws)
    \/ MessageEnd
    \/ \E h \in Handles : CloseEvent(h)
    \/ \E h \in Handles, s \in {OPEN, CLOSING} : ErrorEvent(h, s)
    \/ \E h \in Handles, s \in ReadyStates : Idle /\ connState[h] = "Open" /\ Transport(h, s)
    \/ IterReturn

SpecIter == Init /\ [][NextIter]_vars

(* ------------------------------ liveness ------------------------------ *)

\* The server under fair scheduling: a handler that runs returns; the event loop,
\* which takes pending events in turn, gets to a pending 'close' event (the event
\* of a handle that is CLOSED) however many other events arrive; and the transport
\* completes the closing of a handle that is CLOSING.  (Strong fairness, because an
\* event can only be taken between two handlers.)
PendingClose == \E h \in Handles : CloseEvent(h)
CompleteClosing ==
    \E h \in Handles :
        Idle /\ connState[h] = "Open" /\ readyState[h] = CLOSING /\ Transport(h, CLOSED)

LiveApp ==
    /\ SpecApp
    /\ WF_vars(Return)
    /\ SF_vars(PendingClose)
    /\ SF_vars(CompleteClosing)

(* ------------------------------ properties ---------------------------- *)

\* Number of entries of a sequence of attempts with the given outcome.
CountRes(att, res) == Cardinality({i \in 1..Len(att) : att[i].res = res})

\* Number of writes of a sequence that go to handle h.
WritesTo(ws, h) == Cardinality({i \in 1..Len(ws) : ws[i].to = h})

\* The handles with a lifecycle in the Open state.
OpenConns == {h \in Handles : connState[h] = "Open"}

\* C1: fault isolation of the broadcast.  After forwardMessage on any registry, with
\* any set of recipients whose send throws: nothing is raised to the caller, every
\* record has its attempt, in the order of the Map; each throwing recipient is
\* counted as a failure, and every open recipient whose send does not throw is
\* written to, also when it comes after a throwing one.
C1FaultIsolation ==
    last.op = "forwardMessage" =>
        /\ ~last.raised
        /\ Len(last.attempts) = Len(clients)
        /\ \A i \in 1..Len(clients) :
               /\ last.attempts[i].id = clients[i].id
               /\ last.attempts[i].ws = clients[i].ws
               /\ last.attempts[i].res = "closed" <=> readyState[clients[i].ws] # OPEN
        /\ last.failCount >= CountRes(last.attempts, "threw")
        /\ last.failCount = Len(clients) - CountRes(last.attempts, "sent")
        /\ Len(last.writes) = CountRes(last.attempts, "sent")
        /\ \A i \in 1..Len(clients) :
               last.attempts[i].res = "threw" =>
                   \A j \in (i + 1)..Len(clients) :
                       last.attempts[j].res = "sent" =>
                           \E k \in 1..Len(last.writes) :
                               last.writes[k].to = last.attempts[j].ws

\* C1 witness: a broadcast where a recipient threw and a later one was written to.
C1Witness ==
    /\ last.op = "forwardMessage"
    /\ \E i, j \in 1..Len(last.attempts) :
           /\ i < j
           /\ last.attempts[i].res = "threw"
           /\ last.attempts[j].res = "sent"
           /\ \E k \in 1..Len(last.writes) : last.writes[k].to = last.attempts[j].ws

\* C2: broadcast accounting in the server.  A well-formed inbound message makes one
\* attempt per registered record, the sender's included: successCount + failCount
\* is getClientCount(); an open record whose send succeeds gets the re-serialised
\* payload exactly once; a record that is not open gets nothing and is one failure.
C2Accounting ==
    (last.op = "message" /\ last.forwarded) =>
        /\ ~last.raised
        /\ last.successCount + last.failCount = getClientCount(clients)
        /\ [i \in 1..Len(last.attempts) |-> last.attempts[i].id] = getClientIds(clients)
        /\ \E i \in 1..Len(last.attempts) : last.attempts[i].ws = last.h
        /\ last.successCount = CountRes(last.attempts, "sent")
        /\ last.failCount = CountRes(last.attempts, "closed") + CountRes(last.attempts, "threw")
        /\ \A i \in 1..Len(clients) :
               LET a == last.attempts[i]
               IN  /\ a.ws = clients[i].ws
                   /\ readyState[a.ws] # OPEN => (a.res = "closed" /\ WritesTo(last.writes, a.ws) = 0)
                   /\ readyState[a.ws] = OPEN => a.res \in {"sent", "threw"}
                   /\ a.res = "sent" => WritesTo(last.writes, a.ws) = 1
                   /\ a.res = "threw" => WritesTo(last.writes, a.ws) = 0
        /\ \A k \in 1..Len(last.writes) :
               last.writes[k].data = JSONstringify(JSONparse(last.text).value)

\* C2 witness: three connections registered, the second one not writable; the other
\* two get the chat message once each and one failure is counted.
C2Witness ==
    /\ last.op = "message"
    /\ last.text = TextChatHi
    /\ Len(clients) = 3
    /\ readyState[clients[2].ws] # OPEN
    /\ last.successCount = 2
    /\ last.failCount = 1
    /\ WritesTo(last.writes, clients[1].ws) = 1
    /\ WritesTo(last.writes, clients[3].ws) = 1

\* C3: no error is fatal.  No exception leaves a handler of the server: the process
\* stays alive and the last handler raised nothing.
C3NoErrorFatal == alive /\ ~last.raised

\* C4: handshake metadata is never required.  Whatever the Cookie header of the
\* request, an accepted connection whose acknowledgment could be written is
\* registered and Open.
C4CookieOptional ==
    (last.op = "accept" /\ ~last.threw) =>
        /\ ~last.raised
        /\ connState[last.h] = "Open"
        /\ last.h \in HandlesOf(clients)
        /\ getClient(clients, attached[last.h]).ws = last.h

\* C5: eventual registry cleanup.  The 'close' handler calls leave with the handle
\* of its connection and removes its record, so the registry holds exactly the
\* connections whose lifecycle is Open.  A handle that has left OPEN never comes
\* back to it, and under fair scheduling the registry ends up holding, for good,
\* only handles that are OPEN: a connection whose transport errs or closes is
\* eventually absent, and getClientCount() settles at the number of connections
\* that are still open.
C5EventualCleanup ==
    /\ [][last'.op = "close" =>
             /\ last'.argt = "ws"
             /\ ~last'.raised
             /\ last'.ret
             /\ last'.h \in HandlesOf(clients)
             /\ last'.h \notin HandlesOf(clients')
             /\ getClientCount(clients') = getClientCount(clients) - 1
             /\ connState'[last'.h] = "Closed"]_vars
    /\ [][\A h \in Handles : readyState[h] # OPEN => readyState'[h] # OPEN]_vars
    /\ [](/\ HandlesOf(clients) = OpenConns
          /\ getClientCount(clients) = Cardinality(OpenConns))
    /\ <>[](/\ \A h \in HandlesOf(clients) : readyState[h] = OPEN
            /\ getClientCount(clients)
                  = Cardinality({h \in OpenConns : readyState[h] = OPEN}))

\* C5 witness: a 'close' event has been handled, its record is gone and another
\* connection is still registered.
C5Witness ==
    /\ last.op = "close"
    /\ last.ret
    /\ last.h \notin HandlesOf(clients)
    /\ getClientCount(clients) >= 1

\* At most one record per identity.
UniqueIds(cl) == \A i, j \in 1..Len(cl) : cl[i].id = cl[j].id => i = j

\* C6, as stated in the specification: join under an identity held by a record
\* of another handle gives that identity to the new handle, does not grow the
\* registry, and leaves the old handle in no record of the registry.
C6AsStated ==
    /\ [](UniqueIds(clients))
    /\ [][(last'.op = "join" /\ last'.prev \notin {0, last'.h}) =>
              /\ getClient(clients', last'.rid).ws = last'.h
              /\ getClientCount(clients') = getClientCount(clients)
              /\ last'.prev \notin HandlesOf(clients')]_vars

\* C6, amended: at most one record per identity; join under an identity held by a
\* record of another handle replaces the handle of that one record, in place, and
\* changes no other record; the old handle stays in the registry exactly when a
\* record under another identity holds it.
C6LastWriteWins ==
    /\ [](UniqueIds(clients))
    /\ [][(last'.op = "join" /\ last'.prev \notin {0, last'.h}) =>
              /\ getClient(clients, last'.rid).ws = last'.prev
              /\ getClient(clients', last'.rid).ws = last'.h
              /\ getClientCount(clients') = getClientCount(clients)
              /\ \A i \in 1..Len(clients) :
                     clients'[i] = IF clients[i].id = last'.rid
                                   THEN [id |-> last'.rid, ws |-> last'.h]
                                   ELSE clients[i]
              /\ last'.prev \in HandlesOf(clients')
                     <=> \E i \in 1..Len(clients) :
                             clients[i].ws = last'.prev /\ clients[i].id # last'.rid]_vars

\* C6 witness: a join has replaced the handle of a record, and the old handle is in
\* no record.
C6Witness ==
    /\ last.op = "join"
    /\ last.prev \notin {0, last.h}
    /\ last.prev \notin HandlesOf(clients)
    /\ getClientCount(clients) >= 2

\* C7: sendToClient returns true exactly when the record exists, its handle is OPEN
\* and send did not throw (and then writes the payload once, to that handle); it never
\* raises and never changes the registry.
C7SendToClient ==
    [][last'.op = "sendToClient" =>
          /\ ~last'.raised
          /\ clients' = clients
          /\ last'.ret <=> /\ Has(clients, last'.id)
                           /\ readyState[getClient(clients, last'.id).ws] = OPEN
                           /\ ~last'.threw
          /\ last'.threw => (Has(clients, last'.id)
                             /\ readyState[getClient(clients, last'.id).ws] = OPEN)
          /\ Len(last'.writes) = IF last'.ret THEN 1 ELSE 0
          /\ last'.ret => last'.writes[1].to = getClient(clients, last'.id).ws]_vars

\* C7 witness: a unicast to a registered, open client whose send threw.
C7Witness ==
    /\ last.op = "sendToClient"
    /\ last.threw
    /\ ~last.ret
    /\ Has(clients, last.id)

\* C8: leave on a miss.  With an identity the registry does not hold, a handle with
\* no identity or with one the registry does not hold, or null, leave returns false,
\* raises nothing and changes nothing.
C8LeaveMiss ==
    [][(/\ last'.op = "leave"
        /\ \/ last'.argt = "null"
           \/ last'.argt = "string" /\ ~Has(clients, last'.id)
           \/ last'.argt = "ws" /\ ~Has(clients, attached[last'.h]))
       => /\ ~last'.raised
          /\ ~last'.ret
          /\ clients' = clients]_vars

\* C9: a malformed inbound message is dropped.  The handler logs the error, does not
\* call forwardMessage, writes to no handle, raises nothing and changes neither the
\* registry nor any connection: the sender stays Open and registered.
C9MalformedDropped ==
    [][(last'.op = "message" /\ last'.text = TextBad) =>
          /\ ~last'.forwarded
          /\ last'.writes = <<>>
          /\ last'.attempts = <<>>
          /\ ~last'.raised
          /\ last'.logs = <<"info", "error">>
          /\ clients' = clients
          /\ getClientCount(clients') = getClientCount(clients)
          /\ connState' = connState
          /\ readyState' = readyState
          /\ alive'
          /\ connState'[last'.h] = "Open"
          /\ last'.h \in HandlesOf(clients')]_vars

\* C9 witness: a malformed message has been handled while two connections are
\* registered.
C9Witness ==
    /\ last.op = "message"
    /\ last.text = TextBad
    /\ getClientCount(clients) >= 2
    /\ connState[last.h] = "Open"

\* C10, as stated in the specification: the acknowledgment written on accept has a
\* timestamp and a field holding the identity join assigned.
C10AsStated ==
    (last.op = "accept" /\ last.writes # <<>>) =>
        /\ "timestamp" \in DOMAIN last.ack
        /\ \E f \in DOMAIN last.ack : last.ack[f] = last.rid

\* C10, amended: the acknowledgment written on accept goes to the new handle and is
\* the serialised object of exactly type 'connected', a message and a timestamp;
\* the identity join assigned, under which the record is stored and which is
\* attached to the handle, is in none of its fields.
C10Acknowledgment ==
    (last.op = "accept" /\ last.writes # <<>>) =>
        /\ DOMAIN last.ack = {"type", "message", "timestamp"}
        /\ last.ack.type = "connected"
        /\ last.ack.timestamp \in Times
        /\ last.writes = <<[to |-> last.h, data |-> JSONstringify(last.ack)]>>
        /\ \A f \in DOMAIN last.ack : last.ack[f] # last.rid
        /\ attached[last.h] = last.rid
        /\ getClient(clients, last.rid).ws = last.h

\* C10 witness: a connection has been accepted and acknowledged while another one
\* is registered.
C10Witness ==
    /\ last.op = "accept"
    /\ last.writes # <<>>
    /\ getClientCount(clients) = 2

\* A record and the handle it holds agree on the identity.
Consistent(cl, att) == \A i \in 1..Len(cl) : att[cl[i].ws] = cl[i].id

\* C11: atomicity of the broadcast.  In the server, with the loop of forwardMessage
\* taken entry by entry and accept, message, close and error events of the other
\* connections pending: while the loop runs, no step changes the registry, an
\* identity attached to a handle, a lifecycle or a ready state, and the only steps
\* are those of the loop; the attempts made so far are the entries before the
\* cursor, each once and in Map order; the loop ends with one attempt per record and
\* with the counts, writes and logs of forwardMessage run as a whole; and in every
\* state the registry has one record per identity, each agreeing with its handle.
C11Atomicity ==
    /\ [][Iterating =>
             /\ clients' = clients
             /\ attached' = attached
             /\ connState' = connState
             /\ readyState' = readyState
             /\ alive'
             /\ last'.op = "message"
             /\ last'.h = last.h
             /\ last'.text = last.text
             /\ last'.pos \in {last.pos + 1, 0}]_vars
    /\ [](Iterating =>
             /\ last.pos <= Len(clients) + 1
             /\ Len(last.attempts) = last.pos - 1
             /\ \A i \in 1..Len(last.attempts) :
                    /\ last.attempts[i].id = clients[i].id
                    /\ last.attempts[i].ws = clients[i].ws)
    /\ [][(Iterating /\ ~Iterating') =>
             LET r == forwardMessage(clients, readyState, JSONparse(last.text).value,
                                     ThrownAt(last.attempts))
             IN  /\ [i \in 1..Len(last'.attempts) |-> last'.attempts[i].id]
                        = getClientIds(clients)
                 /\ last'.attempts = r.attempts
                 /\ last'.writes = r.writes
                 /\ last'.successCount = r.successCount
                 /\ last'.failCount = r.failCount
                 /\ last'.logs = <<"info">> \o r.logs
                 /\ \A i \in 1..Len(clients) :
                        WritesTo(last'.writes, clients[i].ws) <= 1]_vars
    /\ [](UniqueIds(clients) /\ Consistent(clients, attached))

\* C11 witness: the loop is between two entries of a registry of three while another
\* connection's 'close' event is pending (its handle is CLOSED, its record still
\* registered).
C11Witness ==
    /\ Iterating
    /\ last.pos = 2
    /\ Len(clients) = 3
    /\ \E h \in Handles :
           h # last.h /\ readyState[h] = CLOSED /\ connState[h] = "Open"

\* Identities a caller supplies to a sequence of joins (non-empty strings: join
\* takes an empty one as no identity).
JoinIds == SuppliedIds \cup {"c"}

\* The sequences of n join calls with pairwise distinct supplied identities.
DistinctJoins(n) ==
    {[i \in 1..n |-> [client |-> hs[i], clientId |-> ids[i]]] :
        hs \in [1..n -> CallerHandles],
        ids \in {f \in [1..n -> JoinIds] : \A i, j \in 1..n : f[i] = f[j] => i = j}}

C13RoundTrip ==
    Idle =>
    \A h \in CallerHandles, clientId \in SuppliedIds \cup {Undefined, ""} :
        \A rnd \in IF Falsy(clientId) THEN FreshIds(CallerGenIds, clients, attached)
                    ELSE {Undefined} :
            LET j == join(clients, attached, h, clientId, rnd)
                byId == leave(j.clients, j.attached, "string", j.rid, 0)
                byWs == leave(j.clients, j.attached, "ws", Undefined, h)
                again == leave(byId.clients, j.attached, "string", j.rid, 0)
                againWs == leave(byWs.clients, j.attached, "ws", Undefined, h)
            IN  ~Has(clients, j.rid) =>
                    /\ getClientCount(j.clients) = getClientCount(clients) + 1
                    /\ byId.ret /\ ~byId.raised
                    /\ byWs.ret /\ ~byWs.raised
                    /\ byId.clients = clients
                    /\ byWs.clients = clients
                    /\ clients = <<>> => getClientCount(byId.clients) = 0
                    /\ ~again.ret /\ ~again.raised /\ again.clients = clients
                    /\ ~againWs.ret /\ ~againWs.raised /\ againWs.clients = clients

\* C13 witness: a leave by handle has returned true and emptied the registry, the
\* handle still carrying the generated identity its join attached.
C13Witness ==
    /\ last.op = "leave"
    /\ last.argt = "ws"
    /\ last.ret
    /\ getClientCount(clients) = 0
    /\ attached[last.h] \in CallerGenIds
    /\ ~leave(clients, attached, "ws", Undefined, last.h).ret

\* C14: clear.  From any registry, clear() leaves getClientCount() = 0 and
\* getClientIds() empty, raises nothing, writes to no handle, logs one line (no line
\* per former client) and touches neither a handle's attached identity nor its ready
\* state; afterwards leave with the handle of any former client (what its 'close'
\* event does) or with its identity returns false, raises nothing and changes nothing.
C14Clear ==
    [][last'.op = "clear" =>
          /\ getClientCount(clients') = 0
          /\ getClientIds(clients') = <<>>
          /\ ~last'.raised
          /\ last'.writes = <<>>
          /\ last'.logs = <<"info">>
          /\ attached' = attached
          /\ readyState' = readyState
          /\ \A i \in 1..Len(clients) :
                 LET byWs == leave(clients', attached', "ws", Undefined, clients[i].ws)
                     byId == leave(clients', attached', "string", clients[i].id, 0)
                 IN  /\ ~byWs.ret /\ ~byWs.raised /\ byWs.clients = <<>>
                     /\ ~byId.ret /\ ~byId.raised /\ byId.clients = <<>>]_vars

\* C14 witness: the registry is empty after a clear, and two handles still carry the
\* identities of the records it dropped.
C14Witness ==
    /\ last.op = "clear"
    /\ getClientCount(clients) = 0
    /\ \A h \in CallerHandles : attached[h] # Undefined
    /\ \E h1, h2 \in CallerHandles : attached[h1] # attached[h2]

\* C15: a transport error changes nothing in the registry.  The 'error' handler
\* raises nothing, writes nothing, logs the error and leaves the registry, the
\* attached identities and the lifecycles as they were: the connection is still Open
\* and registered.  While the server runs, a record leaves the registry only in the
\* 'close' handler of its own connection; and every broadcast writes once to every
\* registered record whose handle reports OPEN and whose send does not throw, whether
\* or not an error was reported on it.
C15ErrorFrame ==
    /\ [][last'.op = "error" =>
             /\ ~last'.raised
             /\ alive'
             /\ last'.writes = <<>>
             /\ last'.logs = <<"error">>
             /\ clients' = clients
             /\ attached' = attached
             /\ connState' = connState
             /\ connState'[last'.h] = "Open"
             /\ last'.h \in HandlesOf(clients')
             /\ getClient(clients', attached'[last'.h]).ws = last'.h]_vars
    /\ [][alive' =>
             \A h \in HandlesOf(clients) \ HandlesOf(clients') :
                 last'.op = "close" /\ last'.h = h]_vars
    /\ []((last.op = "message" /\ last.forwarded) =>
             \A i \in 1..Len(clients) :
                 (readyState[clients[i].ws] = OPEN /\ last.attempts[i].res # "threw")
                     => WritesTo(last.writes, clients[i].ws) = 1)

\* C15 witness: an error has been reported on a connection whose handle still
\* reports OPEN; it is registered, next to another connection.
C15Witness ==
    /\ last.op = "error"
    /\ readyState[last.h] = OPEN
    /\ connState[last.h] = "Open"
    /\ last.h \in HandlesOf(clients)
    /\ getClientCount(clients) >= 2

\* C16, as stated in the specification: an identity join generates comes from at
\* least 16 random bytes (128 bits).
C16AsStated ==
    (last.op = "join" /\ Falsy(last.id)) => last.bytes >= 16

\* C16, amended: an identity join generates comes from exactly 8 bytes (64 bits) of
\* crypto.randomBytes, written as 16 hexadecimal digits; a join with a supplied
\* (non-empty) identity draws no random bytes and returns the identity supplied.
C16Entropy ==
    last.op = "join" =>
        IF Falsy(last.id)
        THEN /\ last.bytes = 8
             /\ 8 * last.bytes = 64
             /\ HexLength(last.bytes) = 16
             /\ last.rid \in GenIds
        ELSE /\ last.bytes = 0
             /\ last.rid = last.id

\* C16 witness: a join without identity has returned a generated one.
C16Witness ==
    /\ last.op = "join"
    /\ last.id = Undefined
    /\ last.rid \in CallerGenIds
    /\ last.bytes = RandomBytes
    /\ getClient(clients, last.rid).ws = last.h

\* C17, as stated in the specification: join with any identity string, the empty
\* one included, stores the record under exactly that string, attaches it to the
\* handle and returns it.
C17AsStated ==
    [][(last'.op = "join" /\ last'.id # Undefined) =>
          /\ last'.rid = last'.id
          /\ attached'[last'.h] = last'.id
          /\ getClient(clients', last'.id).ws = last'.h]_vars

\* C17, amended: join with a non-empty identity string stores the record under
\* exactly that string; with the identity omitted, or the empty string, it generates
\* one, which no record held, and the empty string is never a key.  In all cases
\* nothing is raised, the returned value is attached to the handle and is the key
\* under which getClient finds the record of the handle passed in.
C17Join ==
    /\ [][last'.op = "join" =>
             /\ ~last'.raised
             /\ attached'[last'.h] = last'.rid
             /\ getClient(clients', last'.rid).ws = last'.h
             /\ getClient(clients', last'.rid).id = last'.rid
             /\ IF last'.id \in {Undefined, ""}
                THEN /\ last'.rid \in GenIds
                     /\ ~Has(clients, last'.rid)
                     /\ getClientCount(clients') = getClientCount(clients) + 1
                ELSE last'.rid = last'.id]_vars
    /\ [](~Has(clients, ""))

\* C17 witness: a join with the empty string has returned a generated identity,
\* under which the record of its handle is found.
C17Witness ==
    /\ last.op = "join"
    /\ last.id = ""
    /\ last.rid \in CallerGenIds
    /\ attached[last.h] = last.rid
    /\ getClient(clients, last.rid).ws = last.h

\* C18, as stated: leave with a handle removes a record only when the record holds
\* that handle.
C18AsStated ==
    [][(last'.op = "leave" /\ last'.argt = "ws") =>
          /\ last'.ret => last'.prev = last'.h
          /\ \A i \in 1..Len(clients) :
                 clients[i].ws # last'.h => \E k \in 1..Len(clients') : clients'[k] = clients[i]]_vars

\* C18, amended: leave with a handle removes the record stored under the identity
\* attached to that handle, whichever handle the record holds, and no other record;
\* it returns true exactly when there was such a record.  After join(h1, id) and
\* join(h2, id), leave(h1) removes the record of h2, which is then in the registry
\* only if registered under another identity, and gets no broadcast otherwise.
C18LeaveByIdentity ==
    [][(last'.op = "leave" /\ last'.argt = "ws") =>
          LET id == attached[last'.h]
          IN  /\ ~last'.raised
              /\ last'.ret <=> Has(clients, id)
              /\ last'.ret => last'.prev = getClient(clients, id).ws
              /\ ~Has(clients', id)
              /\ getClientIds(clients')
                     = SelectSeq(getClientIds(clients), LAMBDA k : k # id)
              /\ \A k \in Keys(clients') : getClient(clients', k) = getClient(clients, k)
              /\ (last'.ret /\ last'.prev # last'.h) =>
                     /\ last'.prev \in HandlesOf(clients') <=>
                            \E i \in 1..Len(clients) :
                                clients[i].ws = last'.prev /\ clients[i].id # id
                     /\ last'.prev \notin HandlesOf(clients') =>
                            forwardMessage(clients', readyState', Ping, {}).writes
                                = SelectSeq(forwardMessage(clients, readyState, Ping, {}).writes,
                                            LAMBDA w : w.to # last'.prev)]_vars

\* C18 witness: leave with a handle has removed the record of another handle, which
\* is open and no longer in the registry.
C18Witness ==
    /\ last.op = "leave"
    /\ last.argt = "ws"
    /\ last.ret
    /\ last.prev \notin {0, last.h}
    /\ attached[last.prev] = attached[last.h]
    /\ readyState[last.prev] = OPEN
    /\ last.prev \notin HandlesOf(clients)

\* C19, as stated: after leave with a handle has returned, no record of the registry
\* holds that handle.
C19AsStated ==
    [][(last'.op = "leave" /\ last'.argt = "ws" /\ ~last'.raised) =>
          last'.h \notin HandlesOf(clients')]_vars

\* C19, amended: after leave with a handle has returned, no record is stored under
\* the identity attached to the handle (the one of its latest join); the records
\* that hold the handle under other identities, from earlier joins of the same
\* handle, all stay.  So no record holds the handle when every record that held it
\* was under its attached identity, as for a handle joined once.
C19NoLeakUnderAttached ==
    [][(last'.op = "leave" /\ last'.argt = "ws" /\ ~last'.raised) =>
          LET id == attached[last'.h]
              others == {i \in 1..Len(clients) :
                            clients[i].ws = last'.h /\ clients[i].id # id}
          IN  /\ ~Has(clients', id)
              /\ {c \in {clients'[k] : k \in 1..Len(clients')} : c.ws = last'.h}
                     = {clients[i] : i \in others}
              /\ last'.h \in HandlesOf(clients') <=> others # {}
              /\ getClientCount(clients')
                     = getClientCount(clients) - (IF Has(clients, id) THEN 1 ELSE 0)]_vars

\* C19 witness: leave with a handle has returned true, and a record of an earlier
\* join of that handle is still in the registry.
C19Witness ==
    /\ last.op = "leave"
    /\ last.argt = "ws"
    /\ last.ret
    /\ last.prev = last.h
    /\ last.h \in HandlesOf(clients)
    /\ ~Has(clients, attached[last.h])

\* C20: order of the writes to one connection.  In the server, with the broadcast
\* loop taken entry by entry: (1) the 'connection' handler has called join before it
\* writes the acknowledgment: when the write is made the record is registered, and
\* when the write throws join has already returned its identity and logged;
\* (2) a step that writes to a handle whose lifecycle was not Open before the step
\* is the accept of that handle, and its one write is the acknowledgment: no
\* broadcast reaches a connection before its acknowledgment, and none is written
\* after its 'close' event has been processed; (3) a broadcast writes only to
\* handles that are registered and Open; (4) a lifecycle never goes back.
C20WriteOrder ==
    /\ [][last'.op = "accept" =>
             /\ last'.writes # <<>> =>
                    /\ last'.writes = <<[to |-> last'.h, data |-> JSONstringify(last'.ack)]>>
                    /\ last'.ack.type = "connected"
                    /\ getClient(clients', last'.rid).ws = last'.h
                    /\ connState[last'.h] = "Connecting"
                    /\ connState'[last'.h] = "Open"
             /\ last'.threw =>
                    /\ last'.rid \in GenIds
                    /\ last'.logs = <<"info", "info">>
                    /\ last'.writes = <<>>]_vars
    /\ [][\A k \in 1..Len(last'.writes) :
             LET x == last'.writes[k].to
             IN  /\ connState[x] # "Open" =>
                        /\ last'.op = "accept"
                        /\ last'.h = x
                        /\ Len(last'.writes) = 1
                 /\ last'.op = "message" =>
                        /\ connState[x] = "Open"
                        /\ x \in HandlesOf(clients)
                        /\ attached[x] # Undefined]_vars
    /\ [][\A h \in Handles :
             /\ connState[h] = "Closed" => connState'[h] = "Closed"
             /\ connState[h] = "Open" => connState'[h] # "Connecting"
             /\ (connState[h] = "Connecting" /\ connState'[h] = "Open") =>
                    (last'.op = "accept" /\ last'.h = h)]_vars
    /\ [](alive => \A h \in Handles :
             connState[h] # "Open" => (h \notin HandlesOf(clients)
                                       /\ WritesTo(last.writes, h) = 0))

\* C20 witness: a broadcast has ended that wrote to two connections, while a third
\* one, accepted earlier, has had its 'close' event processed and got nothing.
C20Witness ==
    /\ alive
    /\ last.op = "message"
    /\ last.forwarded
    /\ ~Iterating
    /\ Len(last.writes) = 2
    /\ \E h \in Handles :
           /\ connState[h] = "Closed"
           /\ attached[h] # Undefined
           /\ WritesTo(last.writes, h) = 0

====
